---- MODULE Spec2Model ----
(***************************************************************************)
(* Attributed text: a text buffer plus an ordered list of (range,          *)
(* attribute) spans.  Two crates define an AttributedText container:       *)
(*   - attributed_text: spans are half-open Range<usize>; the container    *)
(*     can delete a range of the text and rebases its spans;               *)
(*   - styled_text: spans are (Bound<usize>, Bound<usize>) pairs; no       *)
(*     editing.                                                            *)
(* usize is modelled as an unsigned integer of UsizeBits bits; arithmetic  *)
(* that overflows panics when the build has overflow checks (debug         *)
(* profile) and wraps when it has none (release profile).  A query yields  *)
(* references into the attribute list: a yielded attribute is modelled as  *)
(* the position of its entry.                                              *)
(***************************************************************************)
EXTENDS Integers, Sequences, FiniteSets, TLC

\* Longest text the container is constructed over.
MaxLen == 3
\* Longest attribute list the model lets apply_attribute build.
MaxSpans == 1
\* Width of the modelled usize.
UsizeBits == 3

USIZE_MAX == 2^UsizeBits - 1

\* Index values the callers pass: every position of the longest text, the
\* first positions past its end, and the largest usize.
Indices == (0..(MaxLen + 1)) \cup {USIZE_MAX}

(***************************************************************************)
(* usize arithmetic                                                        *)
(***************************************************************************)
wrapping_add(a, b) == (a + b) % (USIZE_MAX + 1)

wrapping_sub(a, b) == (a + (USIZE_MAX + 1) - b) % (USIZE_MAX + 1)

add_overflows(a, b) == a + b > USIZE_MAX

sub_overflows(a, b) == b > a

min(a, b) == IF a <= b THEN a ELSE b

(***************************************************************************)
(* Text storage.  A text is a sequence of bytes; a byte is 1 when it is    *)
(* the first byte of a character and 0 when it continues one.              *)
(***************************************************************************)
\* The texts a container is constructed over: the one-byte-per-character
\* texts of every length up to MaxLen, and the text of MaxLen bytes whose
\* last character takes two bytes.
InitTexts ==
    { [i \in 1..n |-> 1] : n \in 0..MaxLen }
    \cup { [i \in 1..MaxLen |-> IF i = MaxLen THEN 0 ELSE 1] }

\* TextStorage::len
len(text) == Len(text)

\* str::is_char_boundary, which String::replace_range asserts of both ends.
is_char_boundary(text, index) ==
    \/ index = 0
    \/ index = Len(text)
    \/ index < Len(text) /\ text[index + 1] = 1

\* EditableTextStorage::replace_range(range, "") for String.
replace_range(text, range) ==
    IF  \/ ~ is_char_boundary(text, range.start)
        \/ ~ is_char_boundary(text, range.end)
    THEN [panicked |-> TRUE, text |-> text]
    ELSE [panicked |-> FALSE,
          text |-> SubSeq(text, 1, range.start)
                   \o SubSeq(text, range.end + 1, Len(text))]

(***************************************************************************)
(* Edit behaviour                                                          *)
(***************************************************************************)
SpanEditAction == {"Keep", "Remove"}

\* The attribute type of the attributed_text crate's tests.
TestAttribute == {"Keep", "Remove"}

\* EditBehavior::on_edit as TestAttribute implements it.
on_edit(attr) == IF attr = "Remove" THEN "Remove" ELSE "Keep"

(***************************************************************************)
(* attributed_text crate: AttributedText<T, Attr> over Range<usize>        *)
(***************************************************************************)
Range(s, e) == [start |-> s, end |-> e]

Ranges == { Range(s, e) : s \in Indices, e \in Indices }

Span(range, attr) == [start |-> range.start, end |-> range.end, attr |-> attr]

\* AttributedText::apply_attribute
apply_attribute(text, attributes, range, attribute) ==
    LET text_len == len(text)
    IN  IF range.start > text_len \/ range.end > text_len
        THEN [result |-> "InvalidBounds", attributes |-> attributes]
        ELSE [result |-> "Ok",
              attributes |-> Append(attributes, Span(range, attribute))]

\* Range::contains
contains(attr_span, index) ==
    attr_span.start <= index /\ index < attr_span.end

\* Iterator::filter_map over the attribute list.  hits[i]: the closure
\* returns Some for entry i.  The positions, in list order, of the entries
\* whose attribute is yielded.
RECURSIVE Positions(_, _)
Positions(hits, i) ==
    IF i > Len(hits) THEN <<>>
    ELSE (IF hits[i] THEN <<i>> ELSE <<>>) \o Positions(hits, i + 1)

\* AttributedText::attributes_at
attributes_at(attributes, index) ==
    LET Hit(attr_span) == contains(attr_span, index)
    IN  Positions([i \in 1..Len(attributes) |-> Hit(attributes[i])], 1)

\* attributes_for_range with the two strict comparisons made non-strict.
attributes_for_range_closed(attributes, range) ==
    LET Hit(attr_span) ==
            (attr_span.start <= range.end) /\ (attr_span.end >= range.start)
    IN  Positions([i \in 1..Len(attributes) |-> Hit(attributes[i])], 1)

\* AttributedText::attributes_for_range
attributes_for_range(attributes, range) ==
    LET Hit(attr_span) ==
            (attr_span.start < range.end) /\ (attr_span.end > range.start)
    IN  Positions([i \in 1..Len(attributes) |-> Hit(attributes[i])], 1)

\* The closure with the containment test made non-strict: a Keep span
\* that begins or ends where the deleted range does is shortened at its
\* end instead of being cut back to its part before the range.
retain_closure_loose_containment(span, deletion_range, deleted_len) ==
    IF span.end <= deletion_range.start
    THEN [keep |-> TRUE, span |-> span, underflow |-> FALSE, partial |-> span]
    ELSE IF span.start >= deletion_range.end
    THEN LET shifted == [span EXCEPT !.start = wrapping_sub(span.start, deleted_len)]
         IN  [keep |-> TRUE,
              span |-> [shifted EXCEPT !.end = wrapping_sub(span.end, deleted_len)],
              underflow |-> sub_overflows(span.start, deleted_len)
                            \/ sub_overflows(span.end, deleted_len),
              partial |-> IF sub_overflows(span.start, deleted_len)
                          THEN span ELSE shifted]
    ELSE IF on_edit(span.attr) = "Keep"
    THEN LET covers == span.start <= deletion_range.start
                       /\ span.end >= deletion_range.end
             new == IF covers
                    THEN [span EXCEPT !.end = wrapping_sub(span.end, deleted_len)]
                    ELSE [span EXCEPT !.start = min(span.start, deletion_range.start),
                                      !.end = min(span.end, deletion_range.start)]
         IN  [keep |-> new.start < new.end,
              span |-> new,
              underflow |-> covers /\ sub_overflows(span.end, deleted_len),
              partial |-> span]
    ELSE [keep |-> FALSE, span |-> span, underflow |-> FALSE, partial |-> span]

\* The closure without the final start < end test: a Keep span is retained
\* whatever the deletion left of it.
retain_closure_keep_collapsed(span, deletion_range, deleted_len) ==
    IF span.end <= deletion_range.start
    THEN [keep |-> TRUE, span |-> span, underflow |-> FALSE, partial |-> span]
    ELSE IF span.start >= deletion_range.end
    THEN LET shifted == [span EXCEPT !.start = wrapping_sub(span.start, deleted_len)]
         IN  [keep |-> TRUE,
              span |-> [shifted EXCEPT !.end = wrapping_sub(span.end, deleted_len)],
              underflow |-> sub_overflows(span.start, deleted_len)
                            \/ sub_overflows(span.end, deleted_len),
              partial |-> IF sub_overflows(span.start, deleted_len)
                          THEN span ELSE shifted]
    ELSE IF on_edit(span.attr) = "Keep"
    THEN LET covers == span.start < deletion_range.start
                       /\ span.end > deletion_range.end
             new == IF covers
                    THEN [span EXCEPT !.end = wrapping_sub(span.end, deleted_len)]
                    ELSE [span EXCEPT !.start = min(span.start, deletion_range.start),
                                      !.end = min(span.end, deletion_range.start)]
         IN  [keep |-> TRUE,
              span |-> new,
              underflow |-> covers /\ sub_overflows(span.end, deleted_len),
              partial |-> span]
    ELSE [keep |-> FALSE, span |-> span, underflow |-> FALSE, partial |-> span]

\* The closure delete hands to retain_mut, for one span.  keep: the
\* closure's return value; span: the span as the closure leaves it;
\* underflow: a subtraction had a minuend smaller than deleted_len;
\* partial: the span as it stands when that subtraction panics.
retain_closure(span, deletion_range, deleted_len) ==
    IF span.end <= deletion_range.start
    THEN [keep |-> TRUE, span |-> span, underflow |-> FALSE, partial |-> span]
    ELSE IF span.start >= deletion_range.end
    THEN LET shifted == [span EXCEPT !.start = wrapping_sub(span.start, deleted_len)]
         IN  [keep |-> TRUE,
              span |-> [shifted EXCEPT !.end = wrapping_sub(span.end, deleted_len)],
              underflow |-> sub_overflows(span.start, deleted_len)
                            \/ sub_overflows(span.end, deleted_len),
              partial |-> IF sub_overflows(span.start, deleted_len)
                          THEN span ELSE shifted]
    ELSE IF on_edit(span.attr) = "Keep"
    THEN LET covers == span.start < deletion_range.start
                       /\ span.end > deletion_range.end
             new == IF covers
                    THEN [span EXCEPT !.end = wrapping_sub(span.end, deleted_len)]
                    ELSE [span EXCEPT !.start = min(span.start, deletion_range.start),
                                      !.end = min(span.end, deletion_range.start)]
         IN  [keep |-> new.start < new.end,
              span |-> new,
              underflow |-> covers /\ sub_overflows(span.end, deleted_len),
              partial |-> span]
    ELSE [keep |-> FALSE, span |-> span, underflow |-> FALSE, partial |-> span]

\* Vec::retain_mut over the attribute list from element i on.  kept: the
\* elements retained so far; images: what the closure made of each element
\* it has run on.  When the closure panics the vector is left holding the
\* retained elements, then the element the closure was working on and the
\* elements it had not reached.
RECURSIVE retain_mut(_, _, _, _, _, _, _)
retain_mut(attributes, i, kept, images, deletion_range, deleted_len, checks) ==
    IF i > Len(attributes)
    THEN [panicked |-> FALSE, attributes |-> kept, images |-> images]
    ELSE LET r == retain_closure(attributes[i], deletion_range, deleted_len)
         IN  IF r.underflow /\ checks
             THEN [panicked |-> TRUE,
                   attributes |-> kept \o <<r.partial>>
                                  \o SubSeq(attributes, i + 1, Len(attributes)),
                   images |-> Append(images, r)]
             ELSE retain_mut(attributes, i + 1,
                             IF r.keep THEN Append(kept, r.span) ELSE kept,
                             Append(images, r),
                             deletion_range, deleted_len, checks)

\* AttributedText::delete.  checks: the build has overflow checks.
delete(text, attributes, deletion_range, checks) ==
    LET text_len == len(text)
    IN  IF deletion_range.start > deletion_range.end \/ deletion_range.end > text_len
        THEN [result |-> "InvalidRange", text |-> text,
              attributes |-> attributes, images |-> <<>>]
        ELSE LET replaced == replace_range(text, deletion_range)
                 deleted_len == deletion_range.end - deletion_range.start
                 retained == retain_mut(attributes, 1, <<>>, <<>>,
                                        deletion_range, deleted_len, checks)
             IN  IF replaced.panicked
                 THEN [result |-> "panic", text |-> text,
                       attributes |-> attributes, images |-> <<>>]
                 ELSE [result |-> IF retained.panicked THEN "panic" ELSE "Ok",
                       text |-> replaced.text,
                       attributes |-> retained.attributes,
                       images |-> retained.images]

(***************************************************************************)
(* styled_text crate: AttributedText<T, Attr> over RangeBounds<usize>      *)
(***************************************************************************)
Included(n) == [kind |-> "Included", v |-> n]

Excluded(n) == [kind |-> "Excluded", v |-> n]

Unbounded == [kind |-> "Unbounded", v |-> 0]

\* Index values the callers of the styled_text crate put in a bound.
BoundIndices == {0, 1, MaxLen, USIZE_MAX}

Bound == { Included(n) : n \in BoundIndices } \cup { Excluded(n) : n \in BoundIndices }
         \cup {Unbounded}

RangeBounds == { Range(s, e) : s \in Bound, e \in Bound }

\* The attribute type of the styled_text crate's tests.
StyledTestAttribute == {"A"}

RangedAttribute(range, attribute) ==
    [start |-> range.start, end |-> range.end, attr |-> attribute]

\* The end bound as apply_attribute resolves it.  overflow: end + 1 does
\* not fit a usize.
rend_of(end_bound, text_len) ==
    CASE end_bound.kind = "Included" ->
            [value |-> wrapping_add(end_bound.v, 1),
             overflow |-> add_overflows(end_bound.v, 1)]
      [] end_bound.kind = "Excluded" ->
            [value |-> end_bound.v, overflow |-> FALSE]
      [] OTHER ->
            [value |-> text_len, overflow |-> FALSE]

\* AttributedText::apply_attribute
styled_apply_attribute(text, attributes, range, attribute, checks) ==
    LET rend == rend_of(range.end, len(text))
    IN  IF rend.overflow /\ checks
        THEN [result |-> "panic", attributes |-> attributes]
        ELSE IF rend.value > len(text)
        THEN [result |-> "InvalidBounds", attributes |-> attributes]
        ELSE [result |-> "Ok",
              attributes |-> Append(attributes, RangedAttribute(range, attribute))]

\* RangeBounds::contains for a (Bound, Bound) pair
bounds_contain(start_bound, end_bound, item) ==
    /\ CASE start_bound.kind = "Included" -> start_bound.v <= item
         [] start_bound.kind = "Excluded" -> start_bound.v < item
         [] OTHER -> TRUE
    /\ CASE end_bound.kind = "Included" -> item <= end_bound.v
         [] end_bound.kind = "Excluded" -> item < end_bound.v
         [] OTHER -> TRUE

\* AttributedText::attributes_at
styled_attributes_at(attributes, index) ==
    LET Hit(ra) == bounds_contain(ra.start, ra.end, index)
    IN  Positions([i \in 1..Len(attributes) |-> Hit(attributes[i])], 1)

\* bounds_to_indices, local to attributes_for_range.  overflow: a + 1 did
\* not fit a usize.
bounds_to_indices(start_bound, end_bound, container_length) ==
    LET start == CASE start_bound.kind = "Included" -> start_bound.v
                   [] start_bound.kind = "Excluded" -> wrapping_add(start_bound.v, 1)
                   [] OTHER -> 0
        end == CASE end_bound.kind = "Included" -> wrapping_add(end_bound.v, 1)
                 [] end_bound.kind = "Excluded" -> end_bound.v
                 [] OTHER -> container_length
    IN  [start |-> start, end |-> end,
         overflow |-> \/ start_bound.kind = "Excluded" /\ add_overflows(start_bound.v, 1)
                      \/ end_bound.kind = "Included" /\ add_overflows(end_bound.v, 1)]

\* The test the filter_map closure of attributes_for_range makes of one
\* entry, q being the query's indices.
styled_overlaps(a, q) ==
    (a.start < q.end) /\ (a.end > q.start)

\* The filter_map of attributes_for_range from element i on, yielded being
\* the positions produced so far.  The closure resolves each entry's bounds
\* as the iterator reaches it.
RECURSIVE filter_map_from(_, _, _, _, _, _)
filter_map_from(attributes, i, yielded, q, text_len, checks) ==
    IF i > Len(attributes)
    THEN [result |-> "Ok", yielded |-> yielded]
    ELSE LET ra == attributes[i]
             a == bounds_to_indices(ra.start, ra.end, text_len)
         IN  IF a.overflow /\ checks
             THEN [result |-> "panic", yielded |-> yielded]
             ELSE filter_map_from(attributes, i + 1,
                     IF styled_overlaps(a, q)
                     THEN Append(yielded, i) ELSE yielded,
                     q, text_len, checks)

\* AttributedText::attributes_for_range, iterated to its end
styled_attributes_for_range(text, attributes, range, checks) ==
    LET q == bounds_to_indices(range.start, range.end, len(text))
    IN  IF q.overflow /\ checks
        THEN [result |-> "panic", yielded |-> <<>>]
        ELSE filter_map_from(attributes, 1, <<>>, q, len(text), checks)

(***************************************************************************)
(* The state machine                                                       *)
(***************************************************************************)
VARIABLES
    crate,            \* which crate's AttributedText this is
    overflow_checks,  \* the build panics on arithmetic overflow
    text,             \* AttributedText::text
    attributes,       \* AttributedText::attributes
    last              \* the last call: its arguments, what it returned and
                      \* the container it was made on, until the caller
                      \* drops what it returned

vars == <<crate, overflow_checks, text, attributes, last>>

NoRange == Range(0, 0)

Call(op, range, index, attribute, result, yielded, images) ==
    [op |-> op, range |-> range, index |-> index, attribute |-> attribute,
     result |-> result, yielded |-> yielded, images |-> images,
     pre_text |-> text, pre_attributes |-> attributes]

NoCall ==
    [op |-> "none", range |-> NoRange, index |-> 0, attribute |-> "none",
     result |-> "none", yielded |-> <<>>, images |-> <<>>,
     pre_text |-> <<>>, pre_attributes |-> <<>>]

Idle == last.op = "none"

\* AttributedText::new(text)
Init ==
    /\ crate \in {"attributed_text", "styled_text"}
    /\ overflow_checks \in BOOLEAN
    /\ text \in InitTexts
    /\ attributes = <<>>
    /\ last = NoCall

ApplyAttribute ==
    /\ crate = "attributed_text"
    /\ Idle
    /\ \E range \in Ranges, attribute \in TestAttribute :
          LET r == apply_attribute(text, attributes, range, attribute)
          IN  /\ Len(r.attributes) <= MaxSpans
              /\ attributes' = r.attributes
              /\ last' = Call("apply_attribute", range, 0, attribute,
                              r.result, <<>>, <<>>)
    /\ UNCHANGED <<crate, overflow_checks, text>>

AttributesAt ==
    /\ crate = "attributed_text"
    /\ Idle
    /\ \E index \in Indices :
          last' = Call("attributes_at", NoRange, index, "none", "Ok",
                       attributes_at(attributes, index), <<>>)
    /\ UNCHANGED <<crate, overflow_checks, text, attributes>>

AttributesForRange ==
    /\ crate = "attributed_text"
    /\ Idle
    /\ \E range \in Ranges :
          last' = Call("attributes_for_range", range, 0, "none", "Ok",
                       attributes_for_range(attributes, range), <<>>)
    /\ UNCHANGED <<crate, overflow_checks, text, attributes>>

Delete ==
    /\ crate = "attributed_text"
    /\ Idle
    /\ \E deletion_range \in Ranges :
          LET r == delete(text, attributes, deletion_range, overflow_checks)
          IN  /\ text' = r.text
              /\ attributes' = r.attributes
              /\ last' = Call("delete", deletion_range, 0, "none",
                              r.result, <<>>, r.images)
    /\ UNCHANGED <<crate, overflow_checks>>

StyledApplyAttribute ==
    /\ crate = "styled_text"
    /\ Idle
    /\ \E range \in RangeBounds, attribute \in StyledTestAttribute :
          LET r == styled_apply_attribute(text, attributes, range, attribute,
                                          overflow_checks)
          IN  /\ Len(r.attributes) <= MaxSpans
              /\ attributes' = r.attributes
              /\ last' = Call("apply_attribute", range, 0, attribute,
                              r.result, <<>>, <<>>)
    /\ UNCHANGED <<crate, overflow_checks, text>>

StyledAttributesAt ==
    /\ crate = "styled_text"
    /\ Idle
    /\ \E index \in Indices :
          last' = Call("attributes_at", NoRange, index, "none", "Ok",
                       styled_attributes_at(attributes, index), <<>>)
    /\ UNCHANGED <<crate, overflow_checks, text, attributes>>

StyledAttributesForRange ==
    /\ crate = "styled_text"
    /\ Idle
    /\ \E range \in RangeBounds :
          LET r == styled_attributes_for_range(text, attributes, range,
                                               overflow_checks)
          IN  last' = Call("attributes_for_range", range, 0, "none",
                           r.result, r.yielded, <<>>)
    /\ UNCHANGED <<crate, overflow_checks, text, attributes>>

\* The caller drops the Result or the iterator the call returned.  A panic
\* is not returned from: the thread unwinds.
Drop ==
    /\ ~ Idle
    /\ last.result # "panic"
    /\ last' = NoCall
    /\ UNCHANGED <<crate, overflow_checks, text, attributes>>

Next ==
    \/ ApplyAttribute
    \/ AttributesAt
    \/ AttributesForRange
    \/ Delete
    \/ StyledApplyAttribute
    \/ StyledAttributesAt
    \/ StyledAttributesForRange
    \/ Drop

Spec == Init /\ [][Next]_vars

(***************************************************************************)
(* Properties                                                              *)
(***************************************************************************)
Fixed == crate = "attributed_text"

Deleted == last.op = "delete" /\ last.result = "Ok"

\* Two half-open ranges overlap.
Overlaps(span, d) == span.end > d.start /\ span.start < d.end

\* The span strictly contains the range.
Covers(span, d) == span.start < d.start /\ span.end > d.end

Smaller(a, b) == IF a <= b THEN a ELSE b

\* The spans the closure kept, in the order retain_mut visited them.
RECURSIVE KeptImages(_)
KeptImages(images) ==
    IF images = <<>> THEN <<>>
    ELSE (IF Head(images).keep THEN <<Head(images).span>> ELSE <<>>)
         \o KeptImages(Tail(images))

\* A bound resolved to an index of the half-open pair, in unbounded
\* integers: inclusive end e -> e + 1, exclusive end e -> e, unbounded end
\* -> the text's length; inclusive start s -> s, exclusive start s -> s + 1,
\* unbounded start -> 0.
ResolvedStart(start_bound) ==
    CASE start_bound.kind = "Included" -> start_bound.v
      [] start_bound.kind = "Excluded" -> start_bound.v + 1
      [] OTHER -> 0

ResolvedEnd(end_bound, text_len) ==
    CASE end_bound.kind = "Included" -> end_bound.v + 1
      [] end_bound.kind = "Excluded" -> end_bound.v
      [] OTHER -> text_len

\* The same resolution in usize arithmetic without overflow checks.
UsizeResolved(range, text_len) ==
    [start |-> ResolvedStart(range.start) % (USIZE_MAX + 1),
     end |-> ResolvedEnd(range.end, text_len) % (USIZE_MAX + 1)]

\* C1: in the attributed_text container every stored span satisfies
\* start <= end <= text.len(), after any sequence of calls.
C1_SpanBounds ==
    Fixed =>
        \A i \in 1..Len(attributes) :
            /\ attributes[i].start <= attributes[i].end
            /\ attributes[i].end <= Len(text)

\* C2: apply_attribute returns Ok and appends exactly the (range, attr)
\* entry at the end of the list iff the range's resolved end is <= L (and,
\* for a Range<usize>, its start is <= L too); otherwise it returns
\* InvalidBounds and leaves the list and the text as they were.
C2_ApplyBounds ==
    last.op = "apply_attribute" =>
        LET L == Len(last.pre_text)
            in_bounds == IF Fixed
                         THEN last.range.start <= L /\ last.range.end <= L
                         ELSE ResolvedEnd(last.range.end, L) <= L
            entry == [start |-> last.range.start, end |-> last.range.end,
                      attr |-> last.attribute]
        IN  /\ text = last.pre_text
            /\ IF in_bounds
               THEN /\ last.result = "Ok"
                    /\ attributes = Append(last.pre_attributes, entry)
               ELSE /\ last.result = "InvalidBounds"
                    /\ attributes = last.pre_attributes

\* C3: delete(r) with r.start > r.end or r.end > text.len() returns
\* InvalidRange and leaves the text and the attribute list as they were;
\* for every other r it returns Ok and the text loses exactly
\* r.end - r.start units.  Stated for the ranges the storage accepts: both
\* ends of r on a character boundary, where they lie in the text.
C3_DeletePrecondition ==
    last.op = "delete" =>
        LET r == last.range
        IN  IF r.start > r.end \/ r.end > Len(last.pre_text)
            THEN /\ last.result = "InvalidRange"
                 /\ text = last.pre_text
                 /\ attributes = last.pre_attributes
            ELSE (/\ is_char_boundary(last.pre_text, r.start)
                  /\ is_char_boundary(last.pre_text, r.end))
                 => /\ last.result = "Ok"
                    /\ Len(text) = Len(last.pre_text) - (r.end - r.start)

\* C4: attributes_at(i) yields, in insertion order and without
\* deduplication, exactly the attributes whose span, resolved to a
\* half-open pair against the current text length, has start <= i < end;
\* for every index, also one at or past the end of the text, and in both
\* crates.
C4_PointContainment ==
    last.op = "attributes_at" =>
        LET Inside(span) ==
                IF Fixed
                THEN span.start <= last.index /\ last.index < span.end
                ELSE /\ ResolvedStart(span.start) <= last.index
                     /\ last.index < ResolvedEnd(span.end, Len(text))
        IN  last.yielded =
                Positions([i \in 1..Len(attributes) |-> Inside(attributes[i])], 1)

\* The query of the last attributes_for_range call and a stored span, each
\* as a pair of indices.
C5_Query ==
    IF Fixed THEN last.range ELSE UsizeResolved(last.range, Len(text))

C5_Span(k) ==
    IF Fixed THEN attributes[k] ELSE UsizeResolved(attributes[k], Len(text))

C5_Yielded == { last.yielded[n] : n \in 1..Len(last.yielded) }

C6_NonOverlappingSurvive ==
    Deleted =>
        LET d == last.range
            pre == last.pre_attributes
        IN  /\ \A i \in 1..Len(pre) :
                  ~ Overlaps(pre[i], d) =>
                      /\ last.images[i].keep
                      /\ pre[i].end <= d.start =>
                            last.images[i].span = pre[i]
                      /\ pre[i].start >= d.end =>
                            /\ last.images[i].span.start
                                   = pre[i].start - (d.end - d.start)
                            /\ last.images[i].span.end
                                   = pre[i].end - (d.end - d.start)
            /\ attributes = KeptImages(last.images)

\* What C7 says a Keep span overlapping d becomes.
C7_Rebased(span, d) ==
    IF Covers(span, d)
    THEN [span EXCEPT !.end = span.end - (d.end - d.start)]
    ELSE [span EXCEPT !.start = Smaller(span.start, d.start),
                      !.end = Smaller(span.end, d.start)]

C8_RetainedNonEmpty ==
    Deleted =>
        \A i \in 1..Len(attributes) : attributes[i].start < attributes[i].end

\* C8 as amended: every span that overlapped the deleted range and is
\* still in the list has start < end; a span that did not overlap it is
\* retained whatever its length.
C8_OverlappedRetainedNonEmpty ==
    Deleted =>
        LET d == last.range
            pre == last.pre_attributes
        IN  /\ \A i \in 1..Len(pre) :
                  IF Overlaps(pre[i], d)
                  THEN last.images[i].keep =>
                          last.images[i].span.start < last.images[i].span.end
                  ELSE last.images[i].keep
            /\ attributes = KeptImages(last.images)

\* A Keep span that overlapped the deleted range without containing it has
\* been cut back to its part before the range and kept.
C8_Witness ==
    /\ Deleted
    /\ \E i \in 1..Len(last.pre_attributes) :
          /\ Overlaps(last.pre_attributes[i], last.range)
          /\ ~ Covers(last.pre_attributes[i], last.range)
          /\ last.images[i].keep
          /\ last.images[i].span \in
                { attributes[k] : k \in 1..Len(attributes) }

\* C9: no subtraction delete makes on a span endpoint has a minuend
\* smaller than deleted_len: delete neither panics nor wraps around.
C9_NoUnderflow ==
    last.op = "delete" =>
        \A i \in 1..Len(last.images) : ~ last.images[i].underflow

\* C10: a successful delete(d) with d.start = d.end leaves the text and
\* the whole attribute list as they were.
C10_EmptyDeleteChangesNothing ==
    (Deleted /\ last.range.start = last.range.end) =>
        /\ text = last.pre_text
        /\ attributes = last.pre_attributes

====
